---- MODULE Spec2Model ----
(***************************************************************************)
(* Model of the ValueCase MCP server (src/src/index.ts): the cached OAuth2 *)
(* access token, the withRetry executor and the call-tool request handler. *)
(*                                                                         *)
(* Strings that the code searches or concatenates (error messages, result  *)
(* texts, URL paths, JSON output) are sequences of string tokens:          *)
(* concatenation is \o and  s.includes(w)  is membership of the token w.   *)
(* Time is Date.now() in milliseconds.                                     *)
(***************************************************************************)
EXTENDS Integers, Sequences, FiniteSets, TLC

\* ------------------------------------------------------------------ bounds
NumInv == 2          \* handler activations that may overlap
StartTime == 100000  \* Date.now() when the server starts
TickMs == 1000       \* granularity of the clock
MaxTicks == 2        \* free ticks of the clock (pending timers may add more)
MaxCalls == 3        \* call-tool requests the transport delivers in a run
ProbeAttempts == 6   \* attempt numbers at which the backoff formula is probed

Procs == 1..NumInv
MaxTime == StartTime + MaxTicks * TickMs

\* --------------------------------------------------- constants of the code
maxAttempts == 3
initialDelay == 1000
maxDelay == 10000
backoffFactor == 2
RefreshMarginSec == 60

\* ------------------------------------------------------------ tool catalog
LIST_SPACES_TOOL == [name |-> "valuecase_list_spaces", required |-> <<>>]
GET_SPACE_TOOL == [name |-> "valuecase_get_space", required |-> <<"spaceId">>]
LIST_FORMS_TOOL == [name |-> "valuecase_list_forms", required |-> <<"spaceId">>]
GET_FORM_TOOL == [name |-> "valuecase_get_form", required |-> <<"formId">>]
GET_FORM_CONTENT_TOOL == [name |-> "valuecase_get_form_content", required |-> <<"formId">>]

\* The list-tools handler's answer.
ListTools ==
  <<LIST_SPACES_TOOL, GET_SPACE_TOOL, LIST_FORMS_TOOL, GET_FORM_TOOL, GET_FORM_CONTENT_TOOL>>

RegisteredNames == {ListTools[k].name : k \in 1..Len(ListTools)}

\* ------------------------------------------------------------------ inputs
\* A JavaScript value as far as the handler looks at it: its typeof and, for
\* a string, its characters.
Undefined == [type |-> "undefined", val |-> ""]
Str(s) == [type |-> "string", val |-> s]
Num(s) == [type |-> "number", val |-> s]

\* request.params.arguments: absent, or an object with (some of) the keys.
NoArgs == [defined |-> FALSE, spaceId |-> Undefined, formId |-> Undefined]
Args(s, f) == [defined |-> TRUE, spaceId |-> s, formId |-> f]

ArgsSet ==
  {NoArgs, Args(Undefined, Undefined), Args(Str("s1"), Str("f1")), Args(Num("42"), Num("42"))}

NameSet == RegisteredNames \cup {"valuecase_nonexistent"}

\* Values thrown by axios (Error objects) or by anything else (isError FALSE,
\* message standing for String(value)).
Err(m) == [isError |-> TRUE, message |-> m]
Thrown(m) == [isError |-> FALSE, message |-> m]

Err429 == Err(<<"Request failed with status code ", "429">>)
ErrRateLimit == Err(<<"API ", "rate limit", " exceeded">>)
Err500 == Err(<<"Request failed with status code ", "500">>)
ErrNetwork == Err(<<"connect ECONNREFUSED">>)
Thrown429 == Thrown(<<"429">>)

GetErrors == {Err429, ErrRateLimit, Err500, Thrown429}
PostErrors == {Err429, ErrNetwork}

\* Bodies of the token endpoint: access_token and expires_in (seconds).
TokenSet == {"tokA", "tokB"}
ExpiresInSet == {30, 60, 61}

\* Bodies of the resource endpoints: a JSON object as a sequence of
\* <<key, string value>> members.
Bodies == {<<>>, << <<"id", "f1">>, <<"title", "X">> >>}

\* tokenExpiresAt: null or a number.
Null == <<>>
Some(n) == <<n>>


\* ------------------------------------------------------- pure code helpers
Min(a, b) == IF a < b THEN a ELSE b

RECURSIVE Pow(_, _)
Pow(b, e) == IF e = 0 THEN 1 ELSE b * Pow(b, e - 1)

\* s.includes(w), on token sequences.
Includes(s, w) == \E k \in 1..Len(s) : s[k] = w

\* tokenExpiresAt as computed by fetchValueCaseAccessToken.
ExpiresAt(t, expires_in) == t + (expires_in - RefreshMarginSec) * 1000

\* NeedsFetch with the expiry taken for seconds.
NeedsFetchSeconds(token, expiresAt, t) ==
  \/ token = ""
  \/ expiresAt = Null
  \/ expiresAt = Some(0)
  \/ t > expiresAt[1] \div 1000

\* The condition of getValueCaseAccessToken under which it fetches:
\* !valuecaseAccessToken || !tokenExpiresAt || Date.now() > tokenExpiresAt.
\* (!tokenExpiresAt is true of null and of the number 0.)
NeedsFetch(token, expiresAt, t) ==
  \/ token = ""
  \/ expiresAt = Null
  \/ expiresAt = Some(0)
  \/ t > expiresAt[1]

\* error instanceof Error ? error.message : String(error)
MessageOf(error) == error.message

\* isRateLimit of withRetry.
IsRateLimit(error) ==
  /\ error.isError
  /\ (Includes(error.message, "rate limit") \/ Includes(error.message, "429"))

\* ShouldRetry without the classification.
ShouldRetryAnyError(error, n) == n < maxAttempts

\* ShouldRetry with one attempt more than maxAttempts.
ShouldRetryOnceMore(error, n) == IsRateLimit(error) /\ n <= maxAttempts

\* The retry condition of withRetry's catch block.
ShouldRetry(error, n) == IsRateLimit(error) /\ n < maxAttempts

\* WithRetryThrows with each frame rethrowing what it caught itself.
WithRetryThrowsFirst(caught) == caught[1]

\* What a withRetry call rejects with once it stops retrying: each frame
\* returns the promise of the frame it started, so the error caught by the
\* innermost (last) frame is the one the caller sees.
WithRetryThrows(caught) == caught[Len(caught)]

\* DelayMs without the exponent.
DelayMsNoBackoff(n) == Min(initialDelay, maxDelay)

\* delayMs of withRetry.
DelayMs(n) == Min(initialDelay * Pow(backoffFactor, n - 1), maxDelay)

\* new McpError(ErrorCode.InvalidParams, m): the SDK prefixes the message.
McpError(m) == Err(<<"MCP error -32602: ", m>>)

\* JSON.stringify(data, null, 2) of an object with string members.
RECURSIVE Members(_, _)
Members(data, k) ==
  IF k > Len(data) THEN <<>>
  ELSE <<"\n  ", "\"", data[k][1], "\"", ": ", "\"", data[k][2], "\"">>
       \o (IF k < Len(data) THEN <<",">> ELSE <<>>)
       \o Members(data, k + 1)

\* JSON.stringify(data), without the indent argument.
RECURSIVE MembersCompact(_, _)
MembersCompact(data, k) ==
  IF k > Len(data) THEN <<>>
  ELSE <<"\"", data[k][1], "\"", ":", "\"", data[k][2], "\"">>
       \o (IF k < Len(data) THEN <<",">> ELSE <<>>)
       \o MembersCompact(data, k + 1)

JSONStringifyCompact(data) ==
  IF data = <<>> THEN <<"{}">> ELSE <<"{">> \o MembersCompact(data, 1) \o <<"}">>

JSONStringify(data) ==
  IF data = <<>> THEN <<"{}">> ELSE <<"{">> \o Members(data, 1) \o <<"\n", "}">>

\* The three shapes of ToolResult the handler returns.
TextBlock(t) == [type |-> "text", text |-> t]
SuccessResult(data) == [content |-> <<TextBlock(JSONStringify(data))>>, isError |-> FALSE]
UnknownToolResult(n) == [content |-> <<TextBlock(<<"Unknown tool: ", n>>)>>, isError |-> TRUE]
ErrorResultNoPrefix(error) ==
  [content |-> <<TextBlock(MessageOf(error))>>, isError |-> TRUE]
ErrorResult(error) ==
  [content |-> <<TextBlock(<<"Error: ">> \o MessageOf(error))>>, isError |-> TRUE]

NoResult == [content |-> <<>>, isError |-> FALSE]

\* The argument a case of the switch requires ("" for none), the check each
\* case makes of it, and the error it throws.
RequiredArg(n) ==
  CASE n \in {"valuecase_get_space", "valuecase_list_forms"} -> "spaceId"
    [] n \in {"valuecase_get_form", "valuecase_get_form_content"} -> "formId"
    [] OTHER -> ""

ArgValue(a, key) == IF key = "spaceId" THEN a.spaceId ELSE a.formId

\* !args || typeof args.<key> !== 'string'
ArgInvalid(n, a) ==
  /\ RequiredArg(n) # ""
  /\ (~a.defined \/ ArgValue(a, RequiredArg(n)).type # "string")

InvalidParamsError(n) ==
  IF RequiredArg(n) = "spaceId" THEN McpError("Missing or invalid spaceId")
  ELSE McpError("Missing or invalid formId")

\* Path with the last segment of the template left out.
PathNoSuffix(n, a) ==
  CASE n = "valuecase_list_spaces" -> <<"/spaces">>
    [] n \in {"valuecase_get_space", "valuecase_list_forms"} -> <<"/spaces/", a.spaceId.val>>
    [] n \in {"valuecase_get_form", "valuecase_get_form_content"} -> <<"/forms/", a.formId.val>>
    [] OTHER -> <<>>

\* The URL each case gets.
Path(n, a) ==
  CASE n = "valuecase_list_spaces" -> <<"/spaces">>
    [] n = "valuecase_get_space" -> <<"/spaces/", a.spaceId.val>>
    [] n = "valuecase_list_forms" -> <<"/spaces/", a.spaceId.val, "/forms">>
    [] n = "valuecase_get_form" -> <<"/forms/", a.formId.val>>
    [] n = "valuecase_get_form_content" -> <<"/forms/", a.formId.val, "/content">>
    [] OTHER -> <<>>

GetRequest(n, a, token) ==
  [method |-> "GET", path |-> Path(n, a), authorization |-> <<"Bearer ", token>>]

NoRequest == [method |-> "", path |-> <<>>, authorization |-> <<>>]


\* What the call-tool handler hands to the transport: a returned ToolResult,
\* or a rejection. The catch block of the handler returns ErrorResult; the
\* default case returns UnknownToolResult; each case returns SuccessResult.
Returned(r) == [kind |-> "returned", value |-> r]
Raised == [kind |-> "raised", value |-> NoResult]
Pending == [kind |-> "pending", value |-> NoResult]

HandlerCatchRethrows(error) == Raised
HandlerCatch(error) == Returned(ErrorResult(error))
HandlerDefault(n) == Returned(UnknownToolResult(n))
HandlerSuccess(data) == Returned(SuccessResult(data))

\* ------------------------------------------------------------------- state
\* What an activation has done so far, as events in order: "getToken" (it
\* called getValueCaseAccessToken), "post" (the token POST was issued),
\* "token" (a token was returned to the handler), "postFailed", "validate"
\* (the switch looked at the name and the arguments), "get" (a resource GET
\* was issued, with the bearer token it carried) and "wait" (a delay began).
Event(e, token) == [ev |-> e, token |-> token]

VARIABLES
  now,                   \* Date.now()
  valuecaseAccessToken,  \* the cached token, '' at start
  tokenExpiresAt,        \* its expiry, null at start
  pc,                    \* where each handler activation stands
  name, args,            \* request.params of the activation
  accessToken,           \* the handler's const accessToken
  attempt,               \* withRetry's attempt
  wakeAt,                \* when the pending delay(delayMs) resolves
  errs,                  \* the errors withRetry has caught, in order
  outcome,               \* what the handler handed to the transport
  posts,                 \* token-exchange POSTs the activation has issued
  gets,                  \* resource GETs the activation has issued
  getReq,                \* the resource GET it issued last
  waits,                 \* the delays withRetry has asked for, in order
  calls,                 \* call-tool requests delivered so far
  steps,                 \* the events of the activation, in order
  tokenErr,              \* the rejection of its token POST, if any
  gotData,               \* the body of its resolved GET, if any
  lastExchange,          \* the token response that arrived last, if any
  listed,                \* the last answer of the list-tools handler
  ssePc,                 \* where the /sse request stands
  sseHeader,             \* its Authorization header
  sseReq,                \* the GET validateSseRequest issued
  sseStatus              \* the status it answered with (0: none yet)

cache == <<valuecaseAccessToken, tokenExpiresAt>>
locals == <<name, args, accessToken, attempt, wakeAt, errs, outcome, posts, gets, getReq, waits,
            steps, tokenErr, gotData>>
aux == <<listed, ssePc, sseHeader, sseReq, sseStatus>>
vars == <<now, valuecaseAccessToken, tokenExpiresAt, pc, name, args, accessToken,
          attempt, wakeAt, errs, outcome, posts, gets, getReq, waits, calls,
          steps, tokenErr, gotData, lastExchange, listed, ssePc, sseHeader, sseReq, sseStatus>>

Init ==
  /\ now = StartTime
  /\ valuecaseAccessToken = ""
  /\ tokenExpiresAt = Null
  /\ pc = [i \in Procs |-> "idle"]
  /\ name = [i \in Procs |-> ""]
  /\ args = [i \in Procs |-> NoArgs]
  /\ accessToken = [i \in Procs |-> ""]
  /\ attempt = [i \in Procs |-> 0]
  /\ wakeAt = [i \in Procs |-> 0]
  /\ errs = [i \in Procs |-> <<>>]
  /\ outcome = [i \in Procs |-> Pending]
  /\ posts = [i \in Procs |-> 0]
  /\ gets = [i \in Procs |-> 0]
  /\ getReq = [i \in Procs |-> NoRequest]
  /\ waits = [i \in Procs |-> <<>>]
  /\ calls = 0
  /\ steps = [i \in Procs |-> <<>>]
  /\ tokenErr = [i \in Procs |-> <<>>]
  /\ gotData = [i \in Procs |-> <<>>]
  /\ lastExchange = <<>>
  /\ listed = <<>>
  /\ ssePc = "idle"
  /\ sseHeader = <<>>
  /\ sseReq = NoRequest
  /\ sseStatus = 0

\* ----------------------------------------------------------------- actions
\* The transport delivers a call-tool request: the handler destructures
\* request.params and calls getValueCaseAccessToken, which either answers from
\* the cache or issues the token POST (fetchValueCaseAccessToken).
CallTool(i, n, a) ==
  /\ pc[i] = "idle"
  /\ calls < MaxCalls
  /\ calls' = calls + 1
  /\ name' = [name EXCEPT ![i] = n]
  /\ args' = [args EXCEPT ![i] = a]
  /\ IF NeedsFetch(valuecaseAccessToken, tokenExpiresAt, now)
     THEN /\ pc' = [pc EXCEPT ![i] = "awaitToken"]
          /\ posts' = [posts EXCEPT ![i] = 1]
          /\ steps' = [steps EXCEPT ![i] = <<Event("getToken", ""), Event("post", "")>>]
          /\ UNCHANGED accessToken
     ELSE /\ pc' = [pc EXCEPT ![i] = "switch"]
          /\ accessToken' = [accessToken EXCEPT ![i] = valuecaseAccessToken]
          /\ steps' = [steps EXCEPT ![i] =
                         <<Event("getToken", ""), Event("token", valuecaseAccessToken)>>]
          /\ UNCHANGED posts
  /\ UNCHANGED <<now, cache, attempt, wakeAt, errs, outcome, gets, getReq, waits,
                 tokenErr, gotData, lastExchange, aux>>

\* TokenResponse with one exchange shared by every activation that waits for
\* a token (single flight).
TokenResponseShared(i, token, expires_in) ==
  /\ pc[i] = "awaitToken"
  /\ valuecaseAccessToken' = token
  /\ tokenExpiresAt' = Some(ExpiresAt(now, expires_in))
  /\ accessToken' = [j \in Procs |->
                       IF pc[j] = "awaitToken" THEN valuecaseAccessToken' ELSE accessToken[j]]
  /\ pc' = [j \in Procs |-> IF pc[j] = "awaitToken" THEN "switch" ELSE pc[j]]
  /\ steps' = [j \in Procs |->
                 IF pc[j] = "awaitToken"
                 THEN Append(steps[j], Event("token", valuecaseAccessToken'))
                 ELSE steps[j]]
  /\ lastExchange' = <<[by |-> i, access_token |-> token, expires_in |-> expires_in, at |-> now]>>
  /\ UNCHANGED <<now, name, args, attempt, wakeAt, errs, outcome, posts, gets, getReq, waits,
                 calls, tokenErr, gotData, aux>>

\* TokenResponse that never shortens the cached expiry.
TokenResponseKeepsLaterExpiry(i, token, expires_in) ==
  /\ pc[i] = "awaitToken"
  /\ valuecaseAccessToken' = token
  /\ tokenExpiresAt' = IF tokenExpiresAt # Null /\ tokenExpiresAt[1] > ExpiresAt(now, expires_in)
                       THEN tokenExpiresAt
                       ELSE Some(ExpiresAt(now, expires_in))
  /\ accessToken' = [accessToken EXCEPT ![i] = valuecaseAccessToken']
  /\ pc' = [pc EXCEPT ![i] = "switch"]
  /\ steps' = [steps EXCEPT ![i] = Append(@, Event("token", valuecaseAccessToken'))]
  /\ lastExchange' = <<[by |-> i, access_token |-> token, expires_in |-> expires_in, at |-> now]>>
  /\ UNCHANGED <<now, name, args, attempt, wakeAt, errs, outcome, posts, gets, getReq, waits,
                 calls, tokenErr, gotData, aux>>

\* The token POST resolves: fetchValueCaseAccessToken stores the token and its
\* expiry and returns the stored token.
TokenResponse(i, token, expires_in) ==
  /\ pc[i] = "awaitToken"
  /\ valuecaseAccessToken' = token
  /\ tokenExpiresAt' = Some(ExpiresAt(now, expires_in))
  /\ accessToken' = [accessToken EXCEPT ![i] = valuecaseAccessToken']
  /\ pc' = [pc EXCEPT ![i] = "switch"]
  /\ steps' = [steps EXCEPT ![i] = Append(@, Event("token", valuecaseAccessToken'))]
  /\ lastExchange' = <<[by |-> i, access_token |-> token, expires_in |-> expires_in, at |-> now]>>
  /\ UNCHANGED <<now, name, args, attempt, wakeAt, errs, outcome, posts, gets, getReq, waits,
                 calls, tokenErr, gotData, aux>>

\* TokenFailure with the token POST retried like a resource GET.
TokenFailureRetried(i, error) ==
  /\ pc[i] = "awaitToken"
  /\ IF ShouldRetry(error, posts[i])
     THEN /\ posts' = [posts EXCEPT ![i] = @ + 1]
          /\ steps' = [steps EXCEPT ![i] = Append(@, Event("post", ""))]
          /\ UNCHANGED <<outcome, pc, tokenErr>>
     ELSE /\ outcome' = [outcome EXCEPT ![i] = HandlerCatch(error)]
          /\ pc' = [pc EXCEPT ![i] = "done"]
          /\ steps' = [steps EXCEPT ![i] = Append(@, Event("postFailed", ""))]
          /\ tokenErr' = [tokenErr EXCEPT ![i] = <<error>>]
          /\ UNCHANGED posts
  /\ UNCHANGED <<now, cache, name, args, accessToken, attempt, wakeAt, errs, gets,
                 getReq, waits, calls, gotData, lastExchange, aux>>

\* TokenFailure with the cached credential dropped.
TokenFailureClearsCache(i, error) ==
  /\ pc[i] = "awaitToken"
  /\ outcome' = [outcome EXCEPT ![i] = HandlerCatch(error)]
  /\ pc' = [pc EXCEPT ![i] = "done"]
  /\ steps' = [steps EXCEPT ![i] = Append(@, Event("postFailed", ""))]
  /\ tokenErr' = [tokenErr EXCEPT ![i] = <<error>>]
  /\ valuecaseAccessToken' = ""
  /\ tokenExpiresAt' = Null
  /\ UNCHANGED <<now, name, args, accessToken, attempt, wakeAt, errs, posts, gets,
                 getReq, waits, calls, gotData, lastExchange, aux>>

\* The token POST rejects: the rejection passes through both token functions
\* to the handler's catch block.
TokenFailure(i, error) ==
  /\ pc[i] = "awaitToken"
  /\ outcome' = [outcome EXCEPT ![i] = HandlerCatch(error)]
  /\ pc' = [pc EXCEPT ![i] = "done"]
  /\ steps' = [steps EXCEPT ![i] = Append(@, Event("postFailed", ""))]
  /\ tokenErr' = [tokenErr EXCEPT ![i] = <<error>>]
  /\ UNCHANGED <<now, cache, name, args, accessToken, attempt, wakeAt, errs, posts, gets,
                 getReq, waits, calls, gotData, lastExchange, aux>>

\* switch (name): the default case, a case's argument check, or the first
\* call of withRetry, whose operation issues the GET.
Dispatch(i) ==
  /\ pc[i] = "switch"
  /\ IF name[i] \notin RegisteredNames
     THEN /\ outcome' = [outcome EXCEPT ![i] = HandlerDefault(name[i])]
          /\ pc' = [pc EXCEPT ![i] = "done"]
          /\ steps' = [steps EXCEPT ![i] = Append(@, Event("validate", ""))]
          /\ UNCHANGED <<attempt, gets, getReq>>
     ELSE IF ArgInvalid(name[i], args[i])
     THEN /\ outcome' = [outcome EXCEPT ![i] = HandlerCatch(InvalidParamsError(name[i]))]
          /\ pc' = [pc EXCEPT ![i] = "done"]
          /\ steps' = [steps EXCEPT ![i] = Append(@, Event("validate", ""))]
          /\ UNCHANGED <<attempt, gets, getReq>>
     ELSE /\ attempt' = [attempt EXCEPT ![i] = 1]
          /\ gets' = [gets EXCEPT ![i] = 1]
          /\ getReq' = [getReq EXCEPT ![i] = GetRequest(name[i], args[i], accessToken[i])]
          /\ pc' = [pc EXCEPT ![i] = "awaitGet"]
          /\ steps' = [steps EXCEPT ![i] =
                         @ \o <<Event("validate", ""), Event("get", getReq'[i].authorization[2])>>]
          /\ UNCHANGED outcome
  /\ UNCHANGED <<now, cache, name, args, accessToken, wakeAt, errs, posts, waits, calls,
                 tokenErr, gotData, lastExchange, aux>>

\* The GET resolves: withRetry returns the response and the case returns.
GetResponse(i, data) ==
  /\ pc[i] = "awaitGet"
  /\ outcome' = [outcome EXCEPT ![i] = HandlerSuccess(data)]
  /\ pc' = [pc EXCEPT ![i] = "done"]
  /\ gotData' = [gotData EXCEPT ![i] = <<data>>]
  /\ UNCHANGED <<now, cache, name, args, accessToken, attempt, wakeAt, errs, posts, gets,
                 getReq, waits, calls, steps, tokenErr, lastExchange, aux>>

\* The GET rejects: withRetry's catch block either starts delay(delayMs) or
\* rethrows, and the rejection reaches the handler's catch block.
GetFailure(i, error) ==
  /\ pc[i] = "awaitGet"
  /\ errs' = [errs EXCEPT ![i] = Append(@, error)]
  /\ IF ShouldRetry(error, attempt[i])
     THEN /\ wakeAt' = [wakeAt EXCEPT ![i] = now + DelayMs(attempt[i])]
          /\ waits' = [waits EXCEPT ![i] = Append(@, DelayMs(attempt[i]))]
          /\ pc' = [pc EXCEPT ![i] = "delay"]
          /\ steps' = [steps EXCEPT ![i] = Append(@, Event("wait", ""))]
          /\ UNCHANGED outcome
     ELSE /\ outcome' = [outcome EXCEPT ![i] = HandlerCatch(WithRetryThrows(errs'[i]))]
          /\ pc' = [pc EXCEPT ![i] = "done"]
          /\ UNCHANGED <<wakeAt, waits, steps>>
  /\ UNCHANGED <<now, cache, name, args, accessToken, attempt, posts, gets, getReq, calls,
                 tokenErr, gotData, lastExchange, aux>>

\* DelayElapsed with the credential looked up again before the next attempt.
DelayElapsedRechecks(i) ==
  /\ pc[i] = "delay"
  /\ now >= wakeAt[i]
  /\ attempt' = [attempt EXCEPT ![i] = @ + 1]
  /\ gets' = [gets EXCEPT ![i] = @ + 1]
  /\ accessToken' = [accessToken EXCEPT ![i] =
                       IF NeedsFetch(valuecaseAccessToken, tokenExpiresAt, now)
                       THEN @ ELSE valuecaseAccessToken]
  /\ getReq' = [getReq EXCEPT ![i] = GetRequest(name[i], args[i], accessToken'[i])]
  /\ pc' = [pc EXCEPT ![i] = "awaitGet"]
  /\ steps' = [steps EXCEPT ![i] = Append(@, Event("get", getReq'[i].authorization[2]))]
  /\ UNCHANGED <<now, cache, name, args, wakeAt, errs, outcome, posts, waits,
                 calls, tokenErr, gotData, lastExchange, aux>>

\* The delay resolves: withRetry calls itself with attempt + 1 and its
\* operation issues the GET again.
DelayElapsed(i) ==
  /\ pc[i] = "delay"
  /\ now >= wakeAt[i]
  /\ attempt' = [attempt EXCEPT ![i] = @ + 1]
  /\ gets' = [gets EXCEPT ![i] = @ + 1]
  /\ getReq' = [getReq EXCEPT ![i] = GetRequest(name[i], args[i], accessToken[i])]
  /\ pc' = [pc EXCEPT ![i] = "awaitGet"]
  /\ steps' = [steps EXCEPT ![i] = Append(@, Event("get", getReq'[i].authorization[2]))]
  /\ UNCHANGED <<now, cache, name, args, accessToken, wakeAt, errs, outcome, posts, waits,
                 calls, tokenErr, gotData, lastExchange, aux>>

\* The transport has sent the handler's answer; the activation is over.
Respond(i) ==
  /\ pc[i] = "done"
  /\ pc' = [pc EXCEPT ![i] = "idle"]
  /\ name' = [name EXCEPT ![i] = ""]
  /\ args' = [args EXCEPT ![i] = NoArgs]
  /\ accessToken' = [accessToken EXCEPT ![i] = ""]
  /\ attempt' = [attempt EXCEPT ![i] = 0]
  /\ wakeAt' = [wakeAt EXCEPT ![i] = 0]
  /\ errs' = [errs EXCEPT ![i] = <<>>]
  /\ outcome' = [outcome EXCEPT ![i] = Pending]
  /\ posts' = [posts EXCEPT ![i] = 0]
  /\ gets' = [gets EXCEPT ![i] = 0]
  /\ getReq' = [getReq EXCEPT ![i] = NoRequest]
  /\ waits' = [waits EXCEPT ![i] = <<>>]
  /\ steps' = [steps EXCEPT ![i] = <<>>]
  /\ tokenErr' = [tokenErr EXCEPT ![i] = <<>>]
  /\ gotData' = [gotData EXCEPT ![i] = <<>>]
  /\ UNCHANGED <<now, cache, calls, lastExchange, aux>>

\* The clock advances; it runs on while a delay is pending.
Tick ==
  /\ \/ now < MaxTime
     \/ \E i \in Procs : pc[i] = "delay" /\ now < wakeAt[i]
  /\ now' = now + TickMs
  /\ UNCHANGED <<cache, pc, locals, calls, lastExchange, aux>>

\* The list-tools handler answers with the catalog.
ListToolsRequest ==
  /\ listed' = ListTools
  /\ UNCHANGED <<now, cache, pc, locals, calls, lastExchange, ssePc, sseHeader, sseReq, sseStatus>>

\* The Authorization header of the /sse endpoint, split at the spaces, and
\* the checks validateSseRequest makes of it.
SseHeaders == {<<>>, <<"Basic", "abc">>, <<"Bearer">>, <<"Bearer", "tokX">>, <<"Bearer", "tokA">>}

\* !authHeader || !authHeader.startsWith('Bearer ')
SseHeaderRejected(h) == h = <<>> \/ h[1] # "Bearer" \/ Len(h) < 2

\* SseToken with the server's own cached token.
SseTokenFromCache(h) == valuecaseAccessToken

\* authHeader.split(' ')[1]
SseToken(h) == h[2]

\* POST /sse arrives: validateSseRequest answers 401 to a missing or
\* non-bearer header, or issues GET /spaces with the caller's token.
SseRequest(h) ==
  /\ ssePc = "idle"
  /\ sseHeader' = h
  /\ IF SseHeaderRejected(h)
     THEN /\ sseStatus' = 401
          /\ ssePc' = "done"
          /\ UNCHANGED sseReq
     ELSE /\ sseReq' = [method |-> "GET", path |-> <<"/spaces">>,
                        authorization |-> <<"Bearer ", SseToken(h)>>]
          /\ ssePc' = "awaitGet"
          /\ UNCHANGED sseStatus
  /\ UNCHANGED <<now, cache, pc, locals, calls, lastExchange, listed>>

\* Its GET resolves: 200.
SseGetResponse ==
  /\ ssePc = "awaitGet"
  /\ sseStatus' = 200
  /\ ssePc' = "done"
  /\ UNCHANGED <<now, cache, pc, locals, calls, lastExchange, listed, sseHeader, sseReq>>

\* Its GET rejects: the catch block answers 403.
SseGetFailure ==
  /\ ssePc = "awaitGet"
  /\ sseStatus' = 403
  /\ ssePc' = "done"
  /\ UNCHANGED <<now, cache, pc, locals, calls, lastExchange, listed, sseHeader, sseReq>>

\* The answer of /sse has been sent.
SseRespond ==
  /\ ssePc = "done"
  /\ ssePc' = "idle"
  /\ sseHeader' = <<>>
  /\ sseReq' = NoRequest
  /\ sseStatus' = 0
  /\ UNCHANGED <<now, cache, pc, locals, calls, lastExchange, listed>>

\* One step of activation i, its inputs drawn from the given sets.
Step(i, names, argss, tokens, expiries, postErrors, bodies, getErrors) ==
  \/ \E n \in names, a \in argss : CallTool(i, n, a)
  \/ \E token \in tokens, expires_in \in expiries : TokenResponse(i, token, expires_in)
  \/ \E error \in postErrors : TokenFailure(i, error)
  \/ Dispatch(i)
  \/ \E data \in bodies : GetResponse(i, data)
  \/ \E error \in getErrors : GetFailure(i, error)
  \/ DelayElapsed(i)
  \/ Respond(i)

\* Requests handled one at a time, with every input.
Next ==
  \/ Step(1, NameSet, ArgsSet, TokenSet, ExpiresInSet, PostErrors, Bodies, GetErrors)
  \/ Tick

Spec == Init /\ [][Next]_vars

\* Overlapping requests: every activation may run between the await points of
\* the others. The cache and the clock are all they share, so the inputs that
\* only shape an activation's own result are cut down to one of each kind.
ConcNames == {"valuecase_list_spaces", "valuecase_get_form"}
ConcArgs == {NoArgs}
ConcBodies == {<<>>}
ConcGetErrors == {Err429, Err500}
ConcPostErrors == {ErrNetwork}
ConcExpiresIn == {30, 61}

ConcNext ==
  \/ \E i \in Procs :
       Step(i, ConcNames, ConcArgs, TokenSet, ConcExpiresIn, ConcPostErrors, ConcBodies, ConcGetErrors)
  \/ Tick

ConcSpec == Init /\ [][ConcNext]_vars

\* Every upstream request gets its response or its failure, the handler's
\* continuations run, and timers fire as the clock advances.
Upstream(i) ==
  \/ \E token \in TokenSet, expires_in \in ExpiresInSet : TokenResponse(i, token, expires_in)
  \/ \E error \in PostErrors : TokenFailure(i, error)
  \/ \E data \in Bodies : GetResponse(i, data)
  \/ \E error \in GetErrors : GetFailure(i, error)

Continue(i) == Dispatch(i) \/ DelayElapsed(i)

FairSpec == Spec /\ WF_vars(Upstream(1)) /\ WF_vars(Continue(1)) /\ WF_vars(Tick)

\* One request at a time beside the list-tools handler and the /sse endpoint.
AuxNext ==
  \/ Step(1, ConcNames, ConcArgs, TokenSet, ExpiresInSet, ConcPostErrors, ConcBodies, ConcGetErrors)
  \/ Tick
  \/ ListToolsRequest
  \/ \E h \in SseHeaders : SseRequest(h)
  \/ SseGetResponse
  \/ SseGetFailure
  \/ SseRespond

AuxSpec == Init /\ [][AuxNext]_vars

\* ===================================================================
\* Properties
\* ===================================================================
\* Vocabulary of the properties, stated apart from the code's own checks.

\* The invocation fails validation against the catalog: the name is not
\* registered, or an argument its tool requires is absent or not a string.
FailsValidation(n, a) ==
  \/ n \notin RegisteredNames
  \/ \E k \in 1..Len(ListTools) :
       /\ ListTools[k].name = n
       /\ \E r \in 1..Len(ListTools[k].required) :
            \/ ~a.defined
            \/ ArgValue(a, ListTools[k].required[r]).type # "string"

\* A rate-limit signal: an Error whose message contains 'rate limit' or '429'.
RateLimitSignal(e) ==
  /\ e.isError
  /\ \E k \in 1..Len(e.message) : e.message[k] \in {"rate limit", "429"}

Started(i) == pc[i] # "idle"
Done(i) == pc[i] = "done"
ResultOf(i) == outcome[i].value
TextOf(i) == ResultOf(i).content[1].text
Last(q) == q[Len(q)]

\* getValueCaseAccessToken is called in this step (by the handler of i) ...
TokenCalled(i) == pc[i] = "idle" /\ pc'[i] # "idle"
\* ... and it returns a token to the handler of i in this step.
TokenReturned(i) == pc[i] \in {"idle", "awaitToken"} /\ pc'[i] = "switch"

\* C1: an invocation that fails validation returns isError=true and makes no
\* network call, neither a token POST nor a resource GET.
C1_InvalidCallNoNetwork ==
  \A i \in Procs :
    (Started(i) /\ FailsValidation(name[i], args[i])) =>
      /\ posts[i] = 0
      /\ gets[i] = 0
      /\ Done(i) => (outcome[i].kind = "returned" /\ ResultOf(i).isError)

\* C2: every token getValueCaseAccessToken returns is returned at a time not
\* later than the expiresAt recorded for it.
C2_TokenNotPastExpiry ==
  [][\A i \in Procs : TokenReturned(i) => now' <= tokenExpiresAt'[1]]_vars

\* C3: the handler never raises to the transport: whenever it finishes it has
\* returned a ToolResult with exactly one content block, of type 'text', and
\* a boolean isError.
C3_AlwaysToolResult ==
  \A i \in Procs :
    /\ outcome[i].kind # "raised"
    /\ Done(i) =>
         /\ outcome[i].kind = "returned"
         /\ Len(ResultOf(i).content) = 1
         /\ ResultOf(i).content[1].type = "text"
         /\ ResultOf(i).isError \in BOOLEAN

C3_Witness ==
  \E i \in Procs :
    /\ Done(i) /\ ResultOf(i).isError
    /\ gets[i] = 2 /\ errs[i] = <<Err429, Err500>>

\* C4: a failure of the operation that is not a rate-limit signal is terminal
\* at any attempt: no further attempt, no delay, the same failure surfaces as
\* the error ToolResult.
C4_OtherFailureTerminal ==
  \A i \in Procs :
    (errs[i] # <<>> /\ ~RateLimitSignal(Last(errs[i]))) =>
      /\ Done(i)
      /\ gets[i] = Len(errs[i])
      /\ Len(waits[i]) = Len(errs[i]) - 1
      /\ outcome[i].kind = "returned"
      /\ ResultOf(i).isError
      /\ TextOf(i) = <<"Error: ">> \o Last(errs[i]).message

C4_Witness ==
  \E i \in Procs :
    /\ Done(i)
    /\ errs[i] = <<ErrRateLimit, Thrown429>>
    /\ gets[i] = 2

\* C5: the wait after the rate-limit failure of attempt k is exactly
\* min(1000 * 2^(k-1), 10000) ms: 1000 then 2000 in an execution (3000 in
\* total before a third attempt), the next attempt is not issued before the
\* wait is over, and no wait exceeds 10000 ms.
BackoffMs(k) ==
  CASE k = 1 -> 1000 [] k = 2 -> 2000 [] k = 3 -> 4000 [] k = 4 -> 8000 [] OTHER -> 10000

RECURSIVE SumSeq(_)
SumSeq(q) == IF q = <<>> THEN 0 ELSE q[1] + SumSeq(Tail(q))

C5_BackoffWaits ==
  /\ \A k \in 1..ProbeAttempts : DelayMs(k) = BackoffMs(k) /\ DelayMs(k) <= 10000
  /\ \A i \in Procs :
       /\ \A k \in 1..Len(waits[i]) : waits[i][k] = BackoffMs(k)
       /\ Len(waits[i]) = (IF pc[i] = "delay" THEN gets[i] ELSE gets[i] - 1) \/ gets[i] = 0
       /\ (pc[i] = "delay") => wakeAt[i] - Last(waits[i]) <= now
       /\ (pc[i] = "awaitGet" /\ attempt[i] > 1) => now >= wakeAt[i]
       /\ (Done(i) /\ gets[i] = 3) => (waits[i] = <<1000, 2000>> /\ SumSeq(waits[i]) = 3000)
       /\ (Done(i) /\ gets[i] = 3 /\ Len(errs[i]) = 2) =>
            /\ outcome[i].kind = "returned"
            /\ ~ResultOf(i).isError
            /\ \E data \in Bodies : TextOf(i) = JSONStringify(data)

C5_Witness ==
  \E i \in Procs :
    /\ Done(i) /\ ~ResultOf(i).isError
    /\ errs[i] = <<Err429, ErrRateLimit>>
    /\ gets[i] = 3
    /\ waits[i] = <<1000, 2000>>
    /\ ResultOf(i).content[1].text = JSONStringify(<< <<"id", "f1">>, <<"title", "X">> >>)

\* C6: an execution of withRetry invokes its operation at most 3 times, and
\* when all 3 attempts fail with a rate-limit signal the invocation returns
\* the error ToolResult that carries the message of the third failure.
C6_ThreeAttemptsLastError ==
  \A i \in Procs :
    /\ gets[i] <= 3
    /\ Len(errs[i]) <= 3
    /\ (Len(errs[i]) = 3 /\ \A k \in 1..3 : RateLimitSignal(errs[i][k])) =>
         /\ Done(i)
         /\ gets[i] = 3
         /\ outcome[i].kind = "returned"
         /\ ResultOf(i).isError
         /\ TextOf(i) = <<"Error: ">> \o errs[i][3].message

C6_Witness ==
  \E i \in Procs :
    /\ Done(i)
    /\ errs[i] = <<Err429, Err429, ErrRateLimit>>
    /\ TextOf(i) = <<"Error: ", "API ", "rate limit", " exceeded">>

\* C7: a call of getValueCaseAccessToken made when no credential is cached or
\* the cached expiresAt is at or before the current time performs a token
\* exchange.
NoCredential == valuecaseAccessToken = "" \/ tokenExpiresAt = Null

C7_RefreshAtOrAfterExpiry ==
  [][\A i \in Procs :
       (TokenCalled(i) /\ (NoCredential \/ tokenExpiresAt[1] <= now)) =>
         (pc'[i] = "awaitToken" /\ posts'[i] = 1)]_vars

\* C8: a call of getValueCaseAccessToken made while a credential is cached
\* and the current time is before its expiresAt returns the cached token,
\* issues no token exchange and leaves the cached token and expiresAt as
\* they were.
C8_CacheHit ==
  [][\A i \in Procs :
       (TokenCalled(i) /\ ~NoCredential /\ now < tokenExpiresAt[1]) =>
         /\ pc'[i] = "switch"
         /\ accessToken'[i] = valuecaseAccessToken
         /\ posts'[i] = 0
         /\ valuecaseAccessToken' = valuecaseAccessToken
         /\ tokenExpiresAt' = tokenExpiresAt]_vars

C8_Witness ==
  \E i \in Procs :
    /\ pc[i] = "switch"
    /\ posts[i] = 0
    /\ calls >= 2
    /\ accessToken[i] = valuecaseAccessToken
    /\ valuecaseAccessToken # ""
    /\ now < tokenExpiresAt[1]

\* C9: an invocation whose name is not registered returns isError=true with
\* the single text 'Unknown tool: ' followed by the name.
C9_UnknownToolAlways ==
  \A i \in Procs :
    (Done(i) /\ name[i] \notin RegisteredNames) =>
      /\ outcome[i].kind = "returned"
      /\ ResultOf(i).isError
      /\ Len(ResultOf(i).content) = 1
      /\ TextOf(i) = <<"Unknown tool: ", name[i]>>

\* C10 as stated: every ToolResult with isError=true has a text that begins
\* with 'Error: '.
C10_ErrorPrefixAlways ==
  \A i \in Procs :
    (Done(i) /\ ResultOf(i).isError) => TextOf(i)[1] = "Error: "

\* C10 as amended: every ToolResult with isError=true has a text that begins
\* with 'Error: ', except the one the default case returns for a name that
\* is not registered, whose text is 'Unknown tool: ' followed by the name.
C10_ErrorPrefixOrUnknownTool ==
  \A i \in Procs :
    (Done(i) /\ ResultOf(i).isError) =>
      \/ TextOf(i)[1] = "Error: "
      \/ name[i] \notin RegisteredNames /\ TextOf(i) = <<"Unknown tool: ", name[i]>>

C10_Witness ==
  \E i \in Procs :
    /\ Done(i) /\ ResultOf(i).isError
    /\ name[i] = "valuecase_get_form"
    /\ args[i] = Args(Num("42"), Num("42"))
    /\ TextOf(i) = <<"Error: ", "MCP error -32602: ", "Missing or invalid formId">>

\* ------------------------------------------------------------------
Events(i, e) == {k \in 1..Len(steps[i]) : steps[i][k].ev = e}
TokenObtained(i) == Events(i, "token") # {}

\* C11: within an invocation the steps happen in the order validate, obtain
\* credential, resource GET: no credential is requested before the name and
\* the arguments have been validated, and no GET is issued before the
\* credential has been obtained.
C11_ValidateThenCredentialThenGet ==
  \A i \in Procs :
    /\ \A k \in Events(i, "getToken") : \E j \in Events(i, "validate") : j < k
    /\ \A k \in Events(i, "get") : \E j \in Events(i, "token") : j < k

\* s contains m as a contiguous part.
Contains(s, m) == \E k \in 0..(Len(s) - Len(m)) : SubSeq(s, k + 1, k + Len(m)) = m

\* C12: when the token exchange fails, the invocation has made exactly one
\* token-exchange request and no resource request, and returns isError=true
\* with a text that contains the message of the exchange failure.
C12_ExchangeFailure ==
  \A i \in Procs :
    tokenErr[i] # <<>> =>
      /\ Done(i)
      /\ posts[i] = 1 /\ Cardinality(Events(i, "post")) = 1
      /\ gets[i] = 0 /\ Events(i, "get") = {}
      /\ outcome[i].kind = "returned"
      /\ ResultOf(i).isError
      /\ Len(ResultOf(i).content) = 1
      /\ Contains(TextOf(i), tokenErr[i][1].message)

C12_Witness ==
  \E i \in Procs :
    /\ Done(i)
    /\ tokenErr[i] = <<Err429>>
    /\ name[i] = "valuecase_list_spaces"
    /\ TextOf(i) = <<"Error: ", "Request failed with status code ", "429">>

\* C13: every resource request of an invocation is a GET on the path fixed
\* by the tool name, with the argument substituted verbatim, and carries
\* 'Authorization: Bearer <token>' with the token returned to the invocation.
TemplatePath(n, a) ==
  IF n = "valuecase_list_spaces" THEN <<"/spaces">>
  ELSE IF n = "valuecase_get_space" THEN <<"/spaces/", a.spaceId.val>>
  ELSE IF n = "valuecase_list_forms" THEN <<"/spaces/", a.spaceId.val, "/forms">>
  ELSE IF n = "valuecase_get_form" THEN <<"/forms/", a.formId.val>>
  ELSE <<"/forms/", a.formId.val, "/content">>

C13_ResourceRequests ==
  \A i \in Procs :
    gets[i] > 0 =>
      /\ name[i] \in RegisteredNames
      /\ getReq[i].method = "GET"
      /\ getReq[i].path = TemplatePath(name[i], args[i])
      /\ Cardinality(Events(i, "get")) = gets[i]
      /\ \A k \in Events(i, "get") :
           \E j \in Events(i, "token") :
             /\ j < k
             /\ steps[i][k].token = steps[i][j].token
             /\ getReq[i].authorization = <<"Bearer ", steps[i][j].token>>

C13_Witness ==
  \E i \in Procs :
    /\ name[i] = "valuecase_list_forms"
    /\ gets[i] = 2
    /\ pc[i] = "awaitGet"
    /\ getReq[i] = [method |-> "GET", path |-> <<"/spaces/", "s1", "/forms">>,
                    authorization |-> <<"Bearer ", "tokB">>]

\* C14: the result has isError=false exactly when the invocation named a
\* registered tool with valid arguments, a credential was obtained and one
\* of its at most 3 GETs succeeded; its single text block is then the
\* pretty-printed JSON of the body that GET returned.
PrettyJson(data) ==
  IF data = <<>> THEN <<"{}">>
  ELSE IF data = << <<"id", "f1">>, <<"title", "X">> >>
  THEN <<"{", "\n  ", "\"", "id", "\"", ": ", "\"", "f1", "\"", ",",
              "\n  ", "\"", "title", "\"", ": ", "\"", "X", "\"", "\n", "}">>
  ELSE <<"?">>

C14_SuccessIff ==
  \A i \in Procs :
    Done(i) =>
      /\ outcome[i].kind = "returned"
      /\ ~ResultOf(i).isError <=>
           /\ ~FailsValidation(name[i], args[i])
           /\ TokenObtained(i)
           /\ gets[i] \in 1..3
           /\ gotData[i] # <<>>
      /\ ~ResultOf(i).isError =>
           ResultOf(i).content = <<[type |-> "text", text |-> PrettyJson(gotData[i][1])]>>

C14_Witness ==
  \E i \in Procs :
    /\ Done(i)
    /\ name[i] = "valuecase_get_form"
    /\ args[i].formId = Str("f1")
    /\ gotData[i] = << << <<"id", "f1">>, <<"title", "X">> >> >>
    /\ ~ResultOf(i).isError
    /\ getReq[i].path = <<"/forms/", "f1">>

\* C15: the cached token and expiresAt change only in a step in which a
\* token exchange succeeds; every other step (failed exchange, validation,
\* GET attempts, delays, list-tools, /sse) leaves them as they were, and the
\* GET of /sse carries the token of its own header, not the cached one.
ExchangeSucceeds(i) == pc[i] = "awaitToken" /\ pc'[i] = "switch"

C15_CacheOwnedByExchange ==
  [][/\ (valuecaseAccessToken' # valuecaseAccessToken \/ tokenExpiresAt' # tokenExpiresAt) =>
          \E i \in Procs : ExchangeSucceeds(i)
     /\ (ssePc' = "awaitGet") =>
          sseReq'.authorization = <<"Bearer ", sseHeader'[2]>>]_vars

C15_Witness ==
  /\ ssePc = "awaitGet"
  /\ sseReq.authorization = <<"Bearer ", "tokX">>
  /\ valuecaseAccessToken = "tokA"
  /\ listed = ListTools
  /\ \E i \in Procs : tokenErr[i] # <<>>

\* C16: refreshes are not de-duplicated: two activations that both miss the
\* cache each send their own token POST (two exchanges are in flight at
\* once), an exchange completes for the one activation that sent it, which
\* uses the token of that response, and no activation sends a second POST.
C16_NoSingleFlight ==
  [][\A i \in Procs :
       /\ ExchangeSucceeds(i) =>
            /\ lastExchange'[1].by = i
            /\ accessToken'[i] = lastExchange'[1].access_token
            /\ \A j \in Procs \ {i} : pc'[j] = pc[j] /\ accessToken'[j] = accessToken[j]
       /\ posts'[i] <= 1
       /\ (posts'[i] = 1 /\ gets'[i] > 0) =>
            /\ getReq'[i].authorization = <<"Bearer ", accessToken'[i]>>
            /\ \A k \in 1..Len(steps'[i]) :
                 steps'[i][k].ev \in {"token", "get"} => steps'[i][k].token = accessToken'[i]
       /\ (pc[i] \notin {"idle", "awaitToken", "done"} /\ pc'[i] # "idle") =>
            accessToken'[i] = accessToken[i]]_vars

C16_Witness ==
  /\ \A i \in Procs : pc[i] = "awaitToken" /\ posts[i] = 1
  /\ name[1] # name[2]
  /\ valuecaseAccessToken = ""

\* C18: the cached pair is never torn: either nothing is cached (empty
\* token, null expiresAt) or the cached token and the cached expiresAt are
\* both those of the exchange that completed last.
C18_CachePairOfLastExchange ==
  \/ /\ valuecaseAccessToken = ""
     /\ tokenExpiresAt = Null
     /\ lastExchange = <<>>
  \/ /\ lastExchange # <<>>
     /\ valuecaseAccessToken = lastExchange[1].access_token
     /\ tokenExpiresAt =
          <<lastExchange[1].at + (lastExchange[1].expires_in - 60) * 1000>>

C18_Witness ==
  /\ lastExchange # <<>>
  /\ lastExchange[1].by = 2
  /\ lastExchange[1].expires_in = 30
  /\ pc[1] = "awaitGet" /\ posts[1] = 1 /\ accessToken[1] = "tokA"
  /\ pc[2] = "switch" /\ posts[2] = 1 /\ accessToken[2] = "tokB"
  /\ valuecaseAccessToken = "tokB"
  /\ tokenExpiresAt = <<now - 30000>>
  /\ now = StartTime

\* C19: an activation obtains its token exactly once, before its first
\* resource GET, and every attempt carries that token: between attempts
\* there is no credential lookup and no token exchange, whatever happens to
\* the cached credential meanwhile.
C19_OneTokenForAllAttempts ==
  \A i \in Procs :
    Started(i) =>
      /\ Cardinality(Events(i, "getToken")) = 1
      /\ Cardinality(Events(i, "post")) <= 1
      /\ Cardinality(Events(i, "token")) <= 1
      /\ \A g \in Events(i, "get") :
           /\ \A k \in Events(i, "getToken") \cup Events(i, "post") \cup Events(i, "token") : k < g
           /\ \E k \in Events(i, "token") : steps[i][k].token = steps[i][g].token
           /\ steps[i][g].token = accessToken[i]
      /\ gets[i] > 0 => getReq[i].authorization = <<"Bearer ", accessToken[i]>>

C19_Witness ==
  \E i \in Procs :
    /\ pc[i] = "awaitGet"
    /\ gets[i] = 3
    /\ Cardinality(Events(i, "get")) = 3
    /\ accessToken[i] = "tokA"
    /\ getReq[i].authorization = <<"Bearer ", "tokA">>
    /\ valuecaseAccessToken = "tokB"
    /\ tokenExpiresAt # Null
    /\ now > tokenExpiresAt[1]

\* C17: provided every upstream request of an invocation gets a response
\* or a failure, the invocation eventually returns a ToolResult, and it
\* makes at most one token exchange, at most 3 resource GETs and at most 2
\* backoff waits of at most 3000 ms together; after attempt 3 there is no
\* further retry.
C17_TerminatesWithinBudget ==
  /\ [](\A i \in Procs :
          /\ posts[i] <= 1
          /\ gets[i] <= 3
          /\ attempt[i] <= 3
          /\ Len(waits[i]) <= 2
          /\ SumSeq(waits[i]) <= 3000
          /\ (attempt[i] = 3 => pc[i] # "delay"))
  /\ \A i \in Procs :
       Started(i) ~> (Done(i) /\ outcome[i].kind = "returned")

C17_Witness ==
  \E i \in Procs :
    /\ Done(i)
    /\ outcome[i].kind = "returned"
    /\ posts[i] = 1
    /\ gets[i] = 3
    /\ waits[i] = <<1000, 2000>>
    /\ Len(errs[i]) = 3
    /\ now >= StartTime + 3000

====
